---- MODULE Spec2Model ----
(***************************************************************************)
(* Model of FL-bench's FedAP / FedSR servers and model zoo resolution:     *)
(*   src/src/server/fedap.py  (FedAPServer, wasserstein, metacount)        *)
(*   src/src/server/fedsr.py  (FedSRServer.__init__)                       *)
(*   src/src/utils/models.py  (get_model_arch, Model_4_FedSR, ...)         *)
(*                                                                         *)
(* Real numbers are exact rationals <<num, den>> (den > 0, lowest terms).  *)
(* Batch-norm statistics are integer multiples of 10^-StatUnitExp, so that *)
(* the distances the code compares with 0 and inverts are small integers;  *)
(* the inverse distances are then held in multiples of 10^StatUnitExp.     *)
(***************************************************************************)
EXTENDS Integers, Sequences, FiniteSets, TLC

VARIABLES
    bnmlist,          \* generate_weight_matrix argument: per-client layer means
    bnvlist,          \* generate_weight_matrix argument: per-client layer variances
    model_momentum,   \* args.model_momentum, a rational in [0, 1]
    weight_matrix,    \* self.weight_matrix, client x client rationals
    wcall,            \* the last wasserstein(...) call: arguments, mode and result
    cli_model,        \* the model name given on the command line
    args_model,       \* args.model
    server_model,     \* self.model of the server, or the exception __init__ raised
    arch_call,        \* the result of the last get_model_arch(cli_model) call
    args,             \* what train() reads of self.args, and client_num_in_total
    warmup_round,     \* self.warmup_round
    pretrain,         \* self.trainer.pretrain
    model_params,     \* trainable_params(self.model)
    pretrain_params,  \* the local pretrain_params of train()
    client_trainable_params,  \* self.client_trainable_params, one entry per client
    pc,               \* the position of train()
    iter,             \* the epochs the current progress bar still yields
    collected,        \* the clients whose statistics are collected
    warmup_run,       \* history: the epochs the warm-up loop ran
    regular_run,      \* history: the epochs the regular loop ran
    events,           \* history: the calls made, with the state they saw
    generated,        \* history: how often generate_weight_matrix returned
    first_round,      \* history: parameters handed out in the first regular round
    meta,             \* a metacount object: count, mean, var
    updates,          \* history: the update(m, tm, tv) calls made on meta
    base,             \* self.base of a DecoupledModel: its modules in call order
    hooks,            \* the forward hooks registered on each module of base
    need_all_features_flag,   \* self.need_all_features_flag
    all_features,     \* self.all_features
    dropout_mode,     \* the mode of the modules of self.dropout
    passes,           \* history: the passes over base made so far
    need_calls,       \* history: the need_all_features() calls made so far
    clean,            \* history: no call has raised so far
    last_call         \* history: the last call, what it saw and what it returned

weightVars == <<bnmlist, bnvlist, model_momentum, weight_matrix, wcall>>
archVars == <<cli_model, args_model, server_model, arch_call>>
trainVars == <<args, warmup_round, pretrain, model_params, pretrain_params,
               client_trainable_params, pc, iter, collected, warmup_run,
               regular_run, events, generated, first_round>>
metaVars == <<meta, updates>>
hookVars == <<base, hooks, need_all_features_flag, all_features, dropout_mode,
              passes, need_calls, clean, last_call>>
vars == <<weightVars, archVars, trainVars, metaVars, hookVars>>

----------------------------------------------------------------------------
(* Bounds of the model *)

MaxClients == 3       \* at most this many clients (client_num)
MomDen == 2           \* model_momentum ranges over k / MomDen, k in 0..MomDen
StatUnitExp == 15     \* statistics are multiples of 10^-StatUnitExp

(* Program constants *)
SentinelExp == 14     \* 100000000000000 = 10^14, fedap.py line 197

----------------------------------------------------------------------------
(* Exact rational arithmetic (numpy float arithmetic without rounding) *)

Abs(x) == IF x < 0 THEN -x ELSE x

RECURSIVE Gcd(_, _)
Gcd(a, b) == IF b = 0 THEN a ELSE Gcd(b, a % b)

Rat(n, d) ==
    LET g == Gcd(Abs(n), Abs(d))
        s == IF d < 0 THEN -1 ELSE 1
    IN  <<(s * n) \div g, (s * d) \div g>>

RZero == <<0, 1>>
ROne == <<1, 1>>
RInt(n) == <<n, 1>>
RAdd(x, y) ==
    LET g == Gcd(x[2], y[2])
    IN  Rat(x[1] * (y[2] \div g) + y[1] * (x[2] \div g), (x[2] \div g) * y[2])
RNeg(x) == <<-x[1], x[2]>>
RSub(x, y) == RAdd(x, RNeg(y))
RMul(x, y) ==
    LET a == Rat(x[1], y[2])
        b == Rat(y[1], x[2])
    IN  <<a[1] * b[1], a[2] * b[2]>>
RDiv(x, y) == RMul(x, Rat(y[2], y[1]))
RLeq(x, y) == RSub(x, y)[1] <= 0
RLess(x, y) == RSub(x, y)[1] < 0

RECURSIVE RSum(_)
RSum(s) == IF s = <<>> THEN RZero ELSE RAdd(Head(s), RSum(Tail(s)))

RECURSIVE Sum(_)
Sum(s) == IF s = <<>> THEN 0 ELSE Head(s) + Sum(Tail(s))

RECURSIVE Pow10(_)
Pow10(k) == IF k = 0 THEN 1 ELSE 10 * Pow10(k - 1)

(* np.sqrt / math.sqrt on the inputs of the model, where it is exact *)
RECURSIVE SqrtFrom(_, _)
SqrtFrom(x, r) == IF r * r >= x THEN r ELSE SqrtFrom(x, r + 1)
Sqrt(x) == SqrtFrom(x, 0)
IsSquare(x) == Sqrt(x) * Sqrt(x) = x

----------------------------------------------------------------------------
(* wasserstein(m1, v1, m2, v2, mode), fedap.py lines 219-230.              *)
(* m and v are sequences of layers, a layer is a sequence of channels.     *)

LayerTw(m1l, v1l, m2l, v2l) ==
    Sum([c \in 1..Len(m1l) |-> (m1l[c] - m2l[c]) * (m1l[c] - m2l[c])])
  + Sum([c \in 1..Len(v1l) |->
            (Sqrt(v1l[c]) - Sqrt(v2l[c])) * (Sqrt(v1l[c]) - Sqrt(v2l[c]))])

LayerTwSigned(m1l, v1l, m2l, v2l) ==
    Sum([c \in 1..Len(m1l) |-> (m1l[c] - m2l[c])])
  + Sum([c \in 1..Len(v1l) |->
            (Sqrt(v1l[c]) - Sqrt(v2l[c])) * (Sqrt(v1l[c]) - Sqrt(v2l[c]))])

WassersteinSigned(m1, v1, m2, v2, mode) ==
    Sum([i \in 1..Len(m1) |->
            IF mode = "square"
            THEN LayerTwSigned(m1[i], v1[i], m2[i], v2[i])
            ELSE LET t == LayerTwSigned(m1[i], v1[i], m2[i], v2[i])
                 IN  IF t < 0 THEN t ELSE Sqrt(t)])

wasserstein(m1, v1, m2, v2, mode) ==
    Sum([i \in 1..Len(m1) |->
            IF mode = "square"
            THEN LayerTw(m1[i], v1[i], m2[i], v2[i])
            ELSE Sqrt(LayerTw(m1[i], v1[i], m2[i], v2[i]))])

----------------------------------------------------------------------------
(* FedAPServer.generate_weight_matrix, fedap.py lines 185-205 *)

(* 100000000000000, in multiples of 10^StatUnitExp *)
Sentinel ==
    IF StatUnitExp >= SentinelExp
    THEN Rat(1, Pow10(StatUnitExp - SentinelExp))
    ELSE Rat(Pow10(SentinelExp - StatUnitExp), 1)

RawWeightNoDiagonal(bnm, bnv, i, j) ==
    LET tmp == wasserstein(bnm[i], bnv[i], bnm[j], bnv[j], "nosquare")
    IN  IF tmp = 0 THEN Sentinel ELSE Rat(1, tmp)

(* weight_m[i, j] before normalisation, lines 190-199 *)
RawWeight(bnm, bnv, i, j) ==
    IF i = j THEN RZero
    ELSE LET tmp == wasserstein(bnm[i], bnv[i], bnm[j], bnv[j], "nosquare")
         IN  IF tmp = 0 THEN Sentinel ELSE Rat(1, tmp)

(* weight_s = np.sum(weight_m, axis=1), line 200 *)
RowSum(bnm, bnv, i) ==
    RSum([j \in 1..Len(bnm) |-> RawWeight(bnm, bnv, i, j)])

generate_weight_matrix(bnm, bnv, momentum) ==
    LET client_num == Len(bnm)
    IN  [i \in 1..client_num |->
            LET weight_s == RowSum(bnm, bnv, i)
            IN  [j \in 1..client_num |->
                    IF i = j THEN momentum
                    ELSE RMul(RDiv(RawWeight(bnm, bnv, i, j), weight_s),
                              RSub(ROne, momentum))]]

----------------------------------------------------------------------------
(* Inputs of the weight-matrix specification *)

(* Per-client statistics: two layers of two channels each. *)
ClientStats ==
    { [m |-> <<<<0, 0>>, <<0, 0>>>>,   v |-> <<<<0, 0>>, <<0, 0>>>>],
      [m |-> <<<<3, 0>>, <<0, 0>>>>,   v |-> <<<<0, 16>>, <<0, 0>>>>],
      [m |-> <<<<0, 0>>, <<12, 0>>>>,  v |-> <<<<0, 0>>, <<0, 0>>>>],
      [m |-> <<<<3, 0>>, <<12, 0>>>>,  v |-> <<<<0, 16>>, <<25, 0>>>>],
      [m |-> <<<<0, 0>>, <<0, 0>>>>,   v |-> <<<<9, 0>>, <<0, 0>>>>] }

Modes == {"nosquare", "square"}

ExactPair(a, b) ==
    \A i \in 1..Len(a.m) : IsSquare(LayerTw(a.m[i], a.v[i], b.m[i], b.v[i]))

Momenta == {Rat(k, MomDen) : k \in 0..MomDen}

(* No call made yet *)
NoResult == [kind |-> "none"]

(* The variables of the other specifications, at rest *)
IdleArch ==
    /\ cli_model = <<>>
    /\ args_model = <<>>
    /\ server_model = NoResult
    /\ arch_call = NoResult

IdleMeta ==
    /\ meta = NoResult
    /\ updates = <<>>

IdleHook ==
    /\ base = <<>>
    /\ hooks = <<>>
    /\ need_all_features_flag = FALSE
    /\ all_features = <<>>
    /\ dropout_mode = "train"
    /\ passes = 0
    /\ need_calls = 0
    /\ clean = TRUE
    /\ last_call = NoResult

IdleTrain ==
    /\ args = NoResult
    /\ warmup_round = 0
    /\ pretrain = FALSE
    /\ model_params = RZero
    /\ pretrain_params = RZero
    /\ client_trainable_params = <<>>
    /\ pc = "idle"
    /\ iter = <<>>
    /\ collected = 0
    /\ warmup_run = <<>>
    /\ regular_run = <<>>
    /\ events = {}
    /\ generated = 0
    /\ first_round = NoResult

NoCall == [i |-> 0, j |-> 0, mode |-> "none", result |-> 0]

InitWeight ==
    /\ \E n \in 2..MaxClients :
         \E st \in [1..n -> ClientStats] :
            /\ \A i, j \in 1..n : ExactPair(st[i], st[j])
            /\ bnmlist = [i \in 1..n |-> st[i].m]
            /\ bnvlist = [i \in 1..n |-> st[i].v]
    /\ model_momentum \in Momenta
    /\ weight_matrix = <<>>
    /\ wcall = NoCall
    /\ IdleArch
    /\ IdleTrain
    /\ IdleMeta
    /\ IdleHook

CallWasserstein ==
    /\ wcall = NoCall
    /\ weight_matrix = <<>>
    /\ \E i, j \in 1..Len(bnmlist), mode \in Modes :
         wcall' = [i |-> i, j |-> j, mode |-> mode,
                   result |-> wasserstein(bnmlist[i], bnvlist[i],
                                          bnmlist[j], bnvlist[j], mode)]
    /\ UNCHANGED <<bnmlist, bnvlist, model_momentum, weight_matrix, archVars, trainVars, metaVars, hookVars>>

CallGenerateWeightMatrix ==
    /\ weight_matrix = <<>>
    /\ wcall = NoCall
    /\ weight_matrix' = generate_weight_matrix(bnmlist, bnvlist, model_momentum)
    /\ UNCHANGED <<bnmlist, bnvlist, model_momentum, wcall, archVars, trainVars, metaVars, hookVars>>

NextWeight == CallWasserstein \/ CallGenerateWeightMatrix

SpecWeight == InitWeight /\ [][NextWeight]_vars

----------------------------------------------------------------------------
(* Claims about generate_weight_matrix and wasserstein (SpecWeight) *)

Generated == weight_matrix # <<>>
Clients == 1..Len(bnmlist)
Dist(i, j) == wasserstein(bnmlist[i], bnvlist[i], bnmlist[j], bnvlist[j], "nosquare")
OffDiagonalSum(i) ==
    RSum([j \in 1..Len(bnmlist) |-> IF j = i THEN RZero ELSE weight_matrix[i][j]])

(* C1: after generate_weight_matrix on n >= 2 clients with momentum in     *)
(* [0, 1], every row of weight_matrix is a convex combination: all entries *)
(* are >= 0, the diagonal entry is model_momentum, the off-diagonal        *)
(* entries sum to 1 - model_momentum and the row sums to 1, also when some *)
(* distinct clients are at distance 0.                                     *)
C1_RowsConvex ==
    Generated =>
        \A i \in Clients :
            /\ \A j \in Clients : RLeq(RZero, weight_matrix[i][j])
            /\ weight_matrix[i][i] = model_momentum
            /\ OffDiagonalSum(i) = RSub(ROne, model_momentum)
            /\ RSum(weight_matrix[i]) = ROne

C1_Witness ==
    /\ Generated
    /\ Len(bnmlist) >= 3
    /\ RLess(RZero, model_momentum) /\ RLess(model_momentum, ROne)
    /\ \E i, j, k \in Clients :
         /\ i # j /\ i # k /\ j # k
         /\ Dist(i, j) = 0 /\ Dist(i, k) > 0

(* C2: the weight matrix is an inverse-distance affinity: in every row i,  *)
(* a client j that is no farther from i than a client k gets no smaller a  *)
(* weight (also when the distance to j is 0), and for non-zero distances   *)
(* weight * distance is the same for j and k.                              *)
C2_InverseDistanceAffinity ==
    Generated =>
        \A i, j, k \in Clients :
            (j # i /\ k # i) =>
                /\ Dist(i, j) <= Dist(i, k)
                      => RLeq(weight_matrix[i][k], weight_matrix[i][j])
                /\ (Dist(i, j) # 0 /\ Dist(i, k) # 0)
                      => RMul(weight_matrix[i][j], RInt(Dist(i, j)))
                           = RMul(weight_matrix[i][k], RInt(Dist(i, k)))

(* C3: wasserstein is a distance on equal-shaped statistics with           *)
(* non-negative variances: it is >= 0, 0 on identical arguments, and       *)
(* symmetric, in both modes.                                               *)
C3_WassersteinDistance ==
    wcall.mode # "none" =>
        /\ wcall.result >= 0
        /\ (bnmlist[wcall.i] = bnmlist[wcall.j] /\ bnvlist[wcall.i] = bnvlist[wcall.j])
              => wcall.result = 0
        /\ wcall.result = wasserstein(bnmlist[wcall.j], bnvlist[wcall.j],
                                      bnmlist[wcall.i], bnvlist[wcall.i], wcall.mode)

C3_Witness ==
    /\ wcall.mode = "square"
    /\ wcall.i # wcall.j
    /\ wcall.result > 0
    /\ bnmlist[wcall.i] # bnmlist[wcall.j]
    /\ bnvlist[wcall.i] # bnvlist[wcall.j]

----------------------------------------------------------------------------
(* Model names are Python strings, held as sequences of characters. *)

W_fedsr == <<"f", "e", "d", "s", "r">>
W_res == <<"r", "e", "s">>
W_dense == <<"d", "e", "n", "s", "e">>
W_mobile == <<"m", "o", "b", "i", "l", "e">>
W_efficient == <<"e", "f", "f", "i", "c", "i", "e", "n", "t">>
W_squeeze == <<"s", "q", "u", "e", "e", "z", "e">>
Underscore == "_"

(* w in s *)
Contains(s, w) ==
    \E k \in 0..(Len(s) - Len(w)) : SubSeq(s, k + 1, k + Len(w)) = w

(* s[k:] *)
Drop(s, k) == SubSeq(s, k + 1, Len(s))

(* s.split(ch)[-1] *)
SplitLast(s, ch) ==
    LET at == {k \in 1..Len(s) : s[k] = ch}
    IN  IF at = {} THEN s
        ELSE Drop(s, CHOOSE k \in at : \A l \in at : l <= k)

(* the static table of get_model_arch, models.py lines 19-27 *)
StaticTable ==
    (<<"l", "e", "n", "e", "t", "5">> :> "LeNet5") @@
    (<<"a", "v", "g", "c", "n", "n">> :> "FedAvgCNN") @@
    (<<"a", "l", "e", "x">> :> "AlexNet") @@
    (<<"s", "q", "z">> :> "SqueezeNet") @@
    (<<"2", "n", "n">> :> "TwoNN") @@
    (<<"c", "u", "s", "t", "o", "m">> :> "CustomModel") @@
    (<<"d", "i", "s", "c", "r", "i", "m", "i", "n", "a", "t", "o", "r">> :> "Discriminator")

(* static[model_name]: the class itself *)
Static(cls) == [kind |-> "static", cls |-> cls, arg |-> <<>>]
(* functools.partial(cls, version=arg) or (cls, base_model_name=arg) *)
Arch(cls, arg) == [kind |-> "partial", cls |-> cls, arg |-> arg]
Raise(err) == [kind |-> "raise", cls |-> err, arg |-> <<>>]

get_model_arch_ResFirst(model_name) ==
    IF model_name \in DOMAIN StaticTable
    THEN Static(StaticTable[model_name])
    ELSE IF Contains(model_name, W_res)
    THEN Arch("ResNet", Drop(model_name, 3))
    ELSE IF Contains(model_name, W_fedsr)
    THEN Arch("Model_4_FedSR", SplitLast(model_name, Underscore))
    ELSE IF Contains(model_name, W_dense)
    THEN Arch("DenseNet", Drop(model_name, 5))
    ELSE IF Contains(model_name, W_mobile)
    THEN Arch("MobileNet", Drop(model_name, 6))
    ELSE IF Contains(model_name, W_efficient)
    THEN Arch("EfficientNet", Drop(model_name, 9))
    ELSE IF Contains(model_name, W_squeeze)
    THEN Arch("SqueezeNet", <<model_name[Len(model_name)]>>)
    ELSE Raise("ValueError")

(* get_model_arch(model_name), models.py lines 17-45: the class and the    *)
(* argument functools.partial binds (version or base_model_name).          *)
get_model_arch(model_name) ==
    IF model_name \in DOMAIN StaticTable
    THEN Static(StaticTable[model_name])
    ELSE IF Contains(model_name, W_fedsr)
    THEN Arch("Model_4_FedSR", SplitLast(model_name, Underscore))
    ELSE IF Contains(model_name, W_res)
    THEN Arch("ResNet", Drop(model_name, 3))
    ELSE IF Contains(model_name, W_dense)
    THEN Arch("DenseNet", Drop(model_name, 5))
    ELSE IF Contains(model_name, W_mobile)
    THEN Arch("MobileNet", Drop(model_name, 6))
    ELSE IF Contains(model_name, W_efficient)
    THEN Arch("EfficientNet", Drop(model_name, 9))
    ELSE IF Contains(model_name, W_squeeze)
    THEN Arch("SqueezeNet", <<model_name[Len(model_name)]>>)
    ELSE Raise("ValueError")

(* the keys of the archs tables, models.py lines 337-340, 361-366,         *)
(* 382-388, 403-413, 427-436                                               *)
ResNetVersions == { <<"1", "8">>,
      <<"3", "4">>,
      <<"5", "0">>,
      <<"1", "0", "1">>,
      <<"1", "5", "2">> }
MobileNetVersions == { <<"2">>,
      <<"3", "s">>,
      <<"3", "l">> }
DenseNetVersions == { <<"1", "2", "1">>,
      <<"1", "6", "1">>,
      <<"1", "6", "9">>,
      <<"2", "0", "1">> }
EfficientNetVersions == { <<"0">>,
      <<"1">>,
      <<"2">>,
      <<"3">>,
      <<"4">>,
      <<"5">>,
      <<"6">>,
      <<"7">> }
SqueezeNetVersions == { <<"0">>,
      <<"1">> }

(* What a constructed model exposes to Model_4_FedSR.__init__:             *)
(*   classifier      - the kind of self.classifier                         *)
(*   base_classifier - the kind of self.base.classifier ("absent": base    *)
(*                     has no such attribute), and its length              *)
Model(cls, arg, classifier, base_classifier, len) ==
    [kind |-> "model", cls |-> cls, arg |-> arg, classifier |-> classifier,
     base_classifier |-> base_classifier, base_classifier_len |-> len]

(* ResNet.__init__, models.py lines 379-397: base is the torchvision       *)
(* ResNet, whose head is the attribute fc; it has no attribute classifier. *)
ResNet(version) ==
    IF version \notin ResNetVersions THEN Raise("KeyError")
    ELSE Model("ResNet", version, "Linear", "absent", 0)

(* MobileNet.__init__, models.py lines 400-421: base is the torchvision    *)
(* MobileNet, whose classifier is a Sequential (Dropout, Linear for v2;    *)
(* Linear, Hardswish, Dropout, Linear for v3).                             *)
MobileNet(version) ==
    IF version \notin MobileNetVersions THEN Raise("KeyError")
    ELSE Model("MobileNet", version, "Linear", "Sequential",
               IF version = <<"2">> THEN 2 ELSE 4)

(* DenseNet.__init__, models.py lines 358-376 *)
DenseNet(version) ==
    IF version \notin DenseNetVersions THEN Raise("KeyError")
    ELSE Model("DenseNet", version, "Linear", "Identity", 0)

(* EfficientNet.__init__, models.py lines 424-446 *)
EfficientNet(version) ==
    IF version \notin EfficientNetVersions THEN Raise("KeyError")
    ELSE Model("EfficientNet", version, "Linear", "Sequential", 2)

(* SqueezeNet.__init__, models.py lines 331-355 *)
SqueezeNet(version) ==
    IF version \notin SqueezeNetVersions THEN Raise("KeyError")
    ELSE Model("SqueezeNet", version, "Sequential", "absent", 0)

(* The classes of the static table, called as cls(dataset=dataset) *)
StaticModel(cls) ==
    CASE cls \in {"LeNet5", "FedAvgCNN", "TwoNN"} ->
            Model(cls, <<>>, "Linear", "absent", 0)
      [] cls = "AlexNet" -> Model(cls, <<>>, "Linear", "Sequential", 7)
      [] cls = "CustomModel" -> Model(cls, <<>>, "None", "absent", 0)
      [] OTHER -> Raise("TypeError")   \* SqueezeNet without version, Discriminator

(* Model_4_FedSR.__init__ after base_model is built, models.py 477-487 *)
FedSRWrap(base_model_name, base_model) ==
    IF base_model.kind = "raise" THEN base_model
    ELSE IF base_model.classifier # "Linear" THEN Raise("AttributeError")
    ELSE IF base_model.base_classifier = "absent" THEN Raise("AttributeError")
    ELSE IF base_model.base_classifier = "Identity" THEN Raise("TypeError")
    ELSE IF base_model.base_classifier_len < 2 THEN Raise("IndexError")
    ELSE Model("Model_4_FedSR", base_model_name, "Linear", "Sequential",
               base_model.base_classifier_len)

(* arch(dataset=dataset) for arch = get_model_arch(model_name) *)
RECURSIVE Build(_)
Build(model_name) ==
    LET a == get_model_arch(model_name)
    IN  CASE a.kind = "raise" -> a
          [] a.kind = "static" -> StaticModel(a.cls)
          [] a.cls = "Model_4_FedSR" ->
                (* models.py line 476 *)
                IF a.arg = model_name THEN Raise("RecursionError")
                ELSE FedSRWrap(a.arg, Build(a.arg))
          [] a.cls = "ResNet" -> ResNet(a.arg)
          [] a.cls = "MobileNet" -> MobileNet(a.arg)
          [] a.cls = "DenseNet" -> DenseNet(a.arg)
          [] a.cls = "EfficientNet" -> EfficientNet(a.arg)
          [] a.cls = "SqueezeNet" -> SqueezeNet(a.arg)

(* The names the specification draws args.model / model_name from *)
ModelNames ==
    { <<"m", "o", "b", "i", "l", "e", "2">>,
      <<"m", "o", "b", "i", "l", "e", "3", "s">>,
      <<"m", "o", "b", "i", "l", "e", "3", "l">>,
      <<"m", "o", "b", "i", "l", "e", "4">>,
      <<"r", "e", "s", "1", "8">>,
      <<"r", "e", "s", "3", "4">>,
      <<"r", "e", "s", "5", "0">>,
      <<"r", "e", "s", "1", "0", "1">>,
      <<"r", "e", "s", "1", "5", "2">>,
      <<"r", "e", "s", "n", "e", "t", "1", "8">>,
      <<"l", "e", "n", "e", "t", "5">>,
      <<"a", "v", "g", "c", "n", "n">>,
      <<"a", "l", "e", "x">>,
      <<"s", "q", "z">>,
      <<"2", "n", "n">>,
      <<"c", "u", "s", "t", "o", "m">>,
      <<"d", "i", "s", "c", "r", "i", "m", "i", "n", "a", "t", "o", "r">>,
      <<"d", "e", "n", "s", "e", "1", "2", "1">>,
      <<"d", "e", "n", "s", "e", "1", "6", "1">>,
      <<"e", "f", "f", "i", "c", "i", "e", "n", "t", "0">>,
      <<"e", "f", "f", "i", "c", "i", "e", "n", "t", "7">>,
      <<"s", "q", "u", "e", "e", "z", "e", "0">>,
      <<"s", "q", "u", "e", "e", "z", "e", "1">>,
      <<"v", "g", "g", "1", "6">>,
      <<"a", "l", "e", "x", "n", "e", "t">>,
      <<"w", "i", "d", "e", "r", "e", "s", "5", "0">>,
      <<"f", "e", "d", "s", "r", "_", "r", "e", "s", "1", "8">>,
      <<"f", "e", "d", "s", "r", "_", "m", "o", "b", "i", "l", "e", "2">>,
      <<"f", "e", "d", "s", "r", "_", "l", "e", "n", "e", "t", "5">>,
      <<"f", "e", "d", "s", "r", "_", "m", "o", "b", "i", "l", "e", "_", "2">>,
      <<"m", "o", "b", "i", "l", "e", "_", "2">> }

(* FedAvgServer.__init__ builds self.model from args.model and             *)
(* args.dataset with get_model_arch.                                       *)
FedAvgServerModel(model_name) == Build(model_name)

(* FedSRServer.__init__, fedsr.py lines 16-31: args.model and self.model   *)
(* (or the exception raised) after the call with args.model = name         *)
FedSRServerInit(name) ==
    IF ~Contains(name, W_mobile) /\ ~Contains(name, W_res)
    THEN [args_model |-> name, server_model |-> Raise("NotImplementedError")]
    ELSE [args_model |-> W_fedsr \o <<Underscore>> \o name,
          server_model |-> FedAvgServerModel(W_fedsr \o <<Underscore>> \o name)]

IdleWeight ==
    /\ bnmlist = <<>>
    /\ bnvlist = <<>>
    /\ model_momentum = RZero
    /\ weight_matrix = <<>>
    /\ wcall = NoCall

InitArch ==
    /\ cli_model \in ModelNames
    /\ args_model = cli_model
    /\ server_model = NoResult
    /\ arch_call = NoResult
    /\ IdleWeight
    /\ IdleTrain
    /\ IdleMeta
    /\ IdleHook

CallFedSRServerInit ==
    /\ server_model.kind = "none"
    /\ args_model' = FedSRServerInit(args_model).args_model
    /\ server_model' = FedSRServerInit(args_model).server_model
    /\ UNCHANGED <<cli_model, arch_call, weightVars, trainVars, metaVars, hookVars>>

CallGetModelArch ==
    /\ arch_call.kind = "none"
    /\ arch_call' = get_model_arch(cli_model)
    /\ UNCHANGED <<cli_model, args_model, server_model, weightVars, trainVars, metaVars, hookVars>>

NextArch == CallFedSRServerInit \/ CallGetModelArch

SpecArch == InitArch /\ [][NextArch]_vars

----------------------------------------------------------------------------
(* metacount, fedap.py lines 233-259.  mean and var are sequences of       *)
(* layers, a layer is a sequence of channels (rationals).                  *)

RSq(x) == RMul(x, x)

(* metacount.__init__(numpyform), lines 234-242 *)
MetaInit(numpyform) ==
    [kind |-> "metacount",
     count |-> 0,
     bl |-> Len(numpyform),
     mean |-> [i \in 1..Len(numpyform) |-> [c \in 1..Len(numpyform[i]) |-> RZero]],
     var |-> [i \in 1..Len(numpyform) |-> [c \in 1..Len(numpyform[i]) |-> RZero]]]

(* tmpm of line 247 *)
MetaTmpm(mc, m, tm, i, c) ==
    RDiv(RAdd(RMul(mc.mean[i][c], RInt(mc.count)), RMul(tm[i][c], RInt(m))),
         RInt(mc.count + m))

MetaVarNoShift(mc, m, tm, tv, i, c) ==
    LET tmpm == MetaTmpm(mc, m, tm, i, c)
    IN  RDiv(RAdd(RMul(RInt(mc.count), mc.var[i][c]),
                  RMul(RInt(m),
                       RAdd(tv[i][c], RSq(RSub(tmpm, tm[i][c]))))),
             RInt(mc.count + m))

(* self.var[i] of lines 248-251 *)
MetaVar(mc, m, tm, tv, i, c) ==
    LET tmpm == MetaTmpm(mc, m, tm, i, c)
    IN  RDiv(RAdd(RMul(RInt(mc.count),
                       RAdd(mc.var[i][c], RSq(RSub(tmpm, mc.mean[i][c])))),
                  RMul(RInt(m),
                       RAdd(tv[i][c], RSq(RSub(tmpm, tm[i][c]))))),
             RInt(mc.count + m))

(* metacount.update(m, tm, tv), lines 244-253 *)
MetaUpdate(mc, m, tm, tv) ==
    [kind |-> "metacount",
     count |-> mc.count + m,
     bl |-> mc.bl,
     mean |-> [i \in 1..mc.bl |->
                 [c \in 1..Len(mc.mean[i]) |-> MetaTmpm(mc, m, tm, i, c)]],
     var |-> [i \in 1..mc.bl |->
                 [c \in 1..Len(mc.var[i]) |-> MetaVar(mc, m, tm, tv, i, c)]]]

(* a list of batches (m, tm, tv) fed to update in order, lines 116-126 *)
RECURSIVE MetaFold(_, _)
MetaFold(mc, batches) ==
    IF batches = <<>> THEN mc
    ELSE MetaFold(MetaUpdate(mc, Head(batches).m, Head(batches).tm, Head(batches).tv),
                  Tail(batches))

(* integer statistics as floats, and back (for statistics that are whole   *)
(* multiples of the unit)                                                  *)
AsRationals(stat) == [i \in 1..Len(stat) |-> [c \in 1..Len(stat[i]) |-> RInt(stat[i][c])]]
AsUnits(stat) == [i \in 1..Len(stat) |-> [c \in 1..Len(stat[i]) |-> stat[i][c][1]]]
Whole(stat) == \A i \in 1..Len(stat) : \A c \in 1..Len(stat[i]) : stat[i][c][2] = 1

----------------------------------------------------------------------------
(* FedAPServer, fedap.py lines 18-216 *)

MaxEpoch == 2          \* args.global_epoch ranges over 1..MaxEpoch
MaxBatches == 2        \* get_all_features yields 1..MaxBatches equal-sized batches

ParamVals == {RInt(2)}               \* values trainer.train returns for the parameter
InitialParams == ROne                \* the parameter of the freshly built self.model
SampleWeights == {1, 2}              \* the weight trainer.train returns
BatchSizes == {1, 2}                 \* entries of batch_size_list
Versions == {"original", "f", "d"}   \* args.version, line 21
TrainClientNums == {2, 3}            \* client_num_in_total
WarmupArgs == {RZero, Rat(1, 2), RInt(1), RInt(2)}   \* args.warmup_round

(* The statistics of the features one client yields *)
FeatureStats ==
    { [m |-> <<<<0, 0>>, <<0, 0>>>>,   v |-> <<<<0, 0>>, <<0, 0>>>>],
      [m |-> <<<<0, 0>>, <<12, 0>>>>,  v |-> <<<<0, 0>>, <<0, 0>>>>],
      [m |-> <<<<0, 0>>, <<0, 0>>>>,   v |-> <<<<9, 0>>, <<0, 0>>>>] }

(* range(a, b) *)
Range(a, b) == [k \in 1..(b - a) |-> a + k - 1]

(* self.warmup_round of __init__, lines 29-33 (int() truncates) *)
WarmupRound(global_epoch, w) ==
    IF RLess(RZero, w) /\ RLess(w, ROne)
    THEN (global_epoch * w[1]) \div w[2]
    ELSE IF RLeq(ROne, w) /\ RLess(w, RInt(global_epoch))
    THEN w[1] \div w[2]
    ELSE 0

(* torch.zeros((client_num_in_total, client_num_in_total)), lines 26-28 *)
ZeroMatrix(n) == [i \in 1..n |-> [j \in 1..n |-> RZero]]

(* the epochs of warmup_progress_bar, lines 42-50 *)
WarmupEpochs ==
    IF ~args.log THEN Range(0, warmup_round) ELSE Range(0, args.pretrain_epoch)

(* the epochs of self.train_progress_bar, lines 132-140 *)
TrainEpochs ==
    IF ~args.log THEN Range(warmup_round, args.global_epoch)
    ELSE Range(0, args.global_epoch)

generate_client_params_Others(params, W, client_id) ==
    RSum([j \in 1..Len(params) |->
            IF j = client_id THEN RZero ELSE RMul(params[j], W[client_id][j])])

(* generate_client_params(client_id), lines 207-216 (one parameter) *)
generate_client_params(params, W, client_id) ==
    RSum([j \in 1..Len(params) |-> RMul(params[j], W[client_id][j])])

(* self.get_form()[0], lines 169-183: the shapes of the running means *)
get_form(stats) ==
    IF args.version = "d" THEN <<stats[Len(stats)]>> ELSE stats

(* A call, with the state it saw: trainer.pretrain, how often              *)
(* generate_weight_matrix had returned, how many clients' statistics were  *)
(* collected, and whether the weight matrix it read (generate_client_      *)
(* params) or the parameters it was handed (get_all_features) were all 0.  *)
Event(op, phase, zero) ==
    [op |-> op, phase |-> phase, pretrain |-> pretrain, generated |-> generated,
     collected |-> collected, zero |-> zero]

NonEmptySubsets(S) == SUBSET S \ {{}}

InitTrain ==
    /\ \E g \in 1..MaxEpoch, w \in WarmupArgs, l \in BOOLEAN, v \in Versions,
          n \in TrainClientNums :
         \E pe \in IF l THEN 0..MaxEpoch ELSE {0} :
            /\ args = [global_epoch |-> g, log |-> l, pretrain_epoch |-> pe,
                       version |-> v, client_num |-> n]
            /\ warmup_round = WarmupRound(g, w)
            /\ weight_matrix = ZeroMatrix(n)
    /\ model_momentum \in Momenta
    /\ model_params = InitialParams
    /\ pretrain = FALSE
    /\ pretrain_params = RZero
    /\ client_trainable_params = <<>>
    /\ pc = "start"
    /\ iter = <<>>
    /\ collected = 0
    /\ warmup_run = <<>>
    /\ regular_run = <<>>
    /\ events = {}
    /\ generated = 0
    /\ first_round = NoResult
    /\ bnmlist = <<>>
    /\ bnvlist = <<>>
    /\ wcall = NoCall
    /\ IdleArch
    /\ IdleMeta
    /\ IdleHook

(* lines 38-50 *)
TrainBegin ==
    /\ pc = "start"
    /\ pretrain' = TRUE
    /\ pretrain_params' = model_params
    /\ iter' = WarmupEpochs
    /\ pc' = "warmup"
    /\ UNCHANGED <<args, warmup_round, model_params, client_trainable_params,
                   collected, warmup_run, regular_run, events, generated,
                   first_round, weightVars, archVars, metaVars, hookVars>>

(* one warm-up epoch of version "f", lines 52-94: the sampled clients      *)
(* train from pretrain_params, which becomes the weighted average.         *)
WarmupEpochF ==
    /\ pc = "warmup" /\ iter # <<>> /\ args.version = "f"
    /\ \E sel \in NonEmptySubsets(1..args.client_num) :
         \E new \in [sel -> ParamVals], wt \in [sel -> SampleWeights] :
            LET order == CHOOSE q \in [1..Cardinality(sel) -> sel] :
                            \A a, b \in 1..Cardinality(sel) : a < b => q[a] < q[b]
                total == Sum([k \in 1..Len(order) |-> wt[order[k]]])
            IN  pretrain_params' =
                    RSum([k \in 1..Len(order) |->
                            RMul(new[order[k]], Rat(wt[order[k]], total))])
    /\ warmup_run' = Append(warmup_run, Head(iter))
    /\ iter' = Tail(iter)
    /\ events' = events \cup {Event("train", "warmup", FALSE)}
    /\ UNCHANGED <<args, warmup_round, pretrain, model_params,
                   client_trainable_params, pc, collected, regular_run,
                   generated, first_round, weightVars, archVars, metaVars, hookVars>>

(* one warm-up epoch of the other versions, lines 52-94: every client      *)
(* trains in turn and its result replaces pretrain_params.                 *)
WarmupEpochAll ==
    /\ pc = "warmup" /\ iter # <<>> /\ args.version # "f"
    /\ \E new \in [1..args.client_num -> ParamVals] :
         pretrain_params' = new[args.client_num]
    /\ warmup_run' = Append(warmup_run, Head(iter))
    /\ iter' = Tail(iter)
    /\ events' = events \cup {Event("train", "warmup", FALSE)}
    /\ UNCHANGED <<args, warmup_round, pretrain, model_params,
                   client_trainable_params, pc, collected, regular_run,
                   generated, first_round, weightVars, archVars, metaVars, hookVars>>

(* lines 96-103 *)
WarmupEnd ==
    /\ pc = "warmup" /\ iter = <<>>
    /\ model_params' = pretrain_params
    /\ client_trainable_params' = [c \in 1..args.client_num |-> pretrain_params]
    /\ bnmlist' = <<>>
    /\ bnvlist' = <<>>
    /\ collected' = 0
    /\ pc' = "collect"
    /\ UNCHANGED <<args, warmup_round, pretrain, pretrain_params, iter,
                   warmup_run, regular_run, events, generated, first_round,
                   model_momentum, weight_matrix, wcall, archVars, metaVars, hookVars>>

(* one iteration of the loop of lines 104-128 *)
CollectClient ==
    /\ pc = "collect" /\ collected < args.client_num
    /\ \E f \in FeatureStats, nb \in 1..MaxBatches, size \in BatchSizes :
            \E avgmeta \in {MetaFold(MetaInit(get_form(f.m)),
                                     [k \in 1..nb |->
                                        [m |-> size, tm |-> AsRationals(f.m),
                                         tv |-> AsRationals(f.v)]])} :
                /\ Whole(avgmeta.mean) /\ Whole(avgmeta.var)
                /\ \A k \in 1..Len(bnmlist) :
                      ExactPair([m |-> bnmlist[k], v |-> bnvlist[k]],
                                [m |-> AsUnits(avgmeta.mean), v |-> AsUnits(avgmeta.var)])
                /\ bnmlist' = Append(bnmlist, AsUnits(avgmeta.mean))
                /\ bnvlist' = Append(bnvlist, AsUnits(avgmeta.var))
    /\ LET client_local_params ==
               generate_client_params(client_trainable_params, weight_matrix,
                                      collected + 1)
       IN  events' = events \cup
               { Event("generate_client_params", "generate",
                       weight_matrix = ZeroMatrix(args.client_num)),
                 Event("get_all_features", "generate", client_local_params = RZero) }
    /\ collected' = collected + 1
    /\ UNCHANGED <<args, warmup_round, pretrain, model_params, pretrain_params,
                   client_trainable_params, pc, iter, warmup_run, regular_run,
                   generated, first_round, model_momentum, weight_matrix, wcall,
                   archVars, metaVars, hookVars>>

(* line 129 *)
GenerateWeightMatrix ==
    /\ pc = "collect" /\ collected = args.client_num
    /\ weight_matrix' = generate_weight_matrix(bnmlist, bnvlist, model_momentum)
    /\ generated' = generated + 1
    /\ pc' = "generated"
    /\ UNCHANGED <<args, warmup_round, pretrain, model_params, pretrain_params,
                   client_trainable_params, iter, collected, warmup_run,
                   regular_run, events, first_round, bnmlist, bnvlist,
                   model_momentum, wcall, archVars, metaVars, hookVars>>

RegularBeginKeepFlag ==
    /\ pc = "generated"
    /\ iter' = TrainEpochs
    /\ bnmlist' = <<>>
    /\ bnvlist' = <<>>
    /\ pc' = "regular"
    /\ UNCHANGED <<args, warmup_round, pretrain, model_params, pretrain_params,
                   client_trainable_params, collected, warmup_run, regular_run,
                   events, generated, first_round, model_momentum,
                   weight_matrix, wcall, archVars, metaVars, hookVars>>

(* lines 131-141; the statistics lists are not read again *)
RegularBegin ==
    /\ pc = "generated"
    /\ iter' = TrainEpochs
    /\ pretrain' = FALSE
    /\ bnmlist' = <<>>
    /\ bnvlist' = <<>>
    /\ pc' = "regular"
    /\ UNCHANGED <<args, warmup_round, model_params, pretrain_params,
                   client_trainable_params, collected, warmup_run, regular_run,
                   events, generated, first_round, model_momentum,
                   weight_matrix, wcall, archVars, metaVars, hookVars>>

(* FedAvgServer.update_client_params(client_params_cache): the selected    *)
(* clients' entries of client_trainable_params become their new parameters *)
update_client_params(params, sel, new) ==
    [c \in 1..Len(params) |-> IF c \in sel THEN new[c] ELSE params[c]]

(* one regular epoch, lines 143-167 *)
RegularEpoch ==
    /\ pc = "regular" /\ iter # <<>>
    /\ \E sel \in NonEmptySubsets(1..args.client_num) :
         /\ \E new \in [sel -> ParamVals] :
               client_trainable_params' =
                   update_client_params(client_trainable_params, sel, new)
         /\ first_round' =
               IF regular_run = <<>>
               THEN [kind |-> "round",
                     handed |-> {generate_client_params(client_trainable_params,
                                                        weight_matrix, c) : c \in sel}]
               ELSE first_round
    /\ regular_run' = Append(regular_run, Head(iter))
    /\ iter' = Tail(iter)
    /\ events' = events \cup
           { Event("generate_client_params", "regular",
                   weight_matrix = ZeroMatrix(args.client_num)),
             Event("train", "regular", FALSE) }
    /\ UNCHANGED <<args, warmup_round, pretrain, model_params, pretrain_params,
                   pc, collected, warmup_run, generated, weightVars, archVars, metaVars, hookVars>>

(* train() returns *)
TrainEnd ==
    /\ pc = "regular" /\ iter = <<>>
    /\ pc' = "done"
    /\ UNCHANGED <<args, warmup_round, pretrain, model_params, pretrain_params,
                   client_trainable_params, iter, collected, warmup_run,
                   regular_run, events, generated, first_round, weightVars,
                   archVars, metaVars, hookVars>>

NextTrain ==
    \/ TrainBegin
    \/ WarmupEpochF
    \/ WarmupEpochAll
    \/ WarmupEnd
    \/ CollectClient
    \/ GenerateWeightMatrix
    \/ RegularBegin
    \/ RegularEpoch
    \/ TrainEnd

SpecTrain == InitTrain /\ [][NextTrain]_vars

----------------------------------------------------------------------------
(* Claims about FedAPServer.train (SpecTrain) *)

(* C6: the warm-up loop runs epochs 0 .. warmup_round-1 and the regular    *)
(* loop runs epochs warmup_round .. global_epoch-1, so together they run   *)
(* exactly 0 .. global_epoch-1, no epoch twice, for both values of         *)
(* args.log.                                                               *)
C6_EpochsPartition ==
    pc = "done" =>
        /\ warmup_run = Range(0, warmup_round)
        /\ regular_run = Range(warmup_round, args.global_epoch)
        /\ warmup_run \o regular_run = Range(0, args.global_epoch)

(* C7: train runs all warm-up rounds, then generates the weight matrix     *)
(* exactly once, then runs all regular rounds; trainer.pretrain is True    *)
(* during every warm-up trainer.train call and every get_all_features      *)
(* call, False during every regular trainer.train call, and no regular     *)
(* training call precedes the return of generate_weight_matrix.            *)
C7_PhaseOrder ==
    /\ \A e \in events :
          /\ (e.op = "train" /\ e.phase = "warmup")
                => e.pretrain /\ e.generated = 0 /\ e.collected = 0
          /\ e.op = "get_all_features" => e.pretrain /\ e.generated = 0
          /\ (e.op = "train" /\ e.phase = "regular")
                => ~e.pretrain /\ e.generated = 1
    /\ generated <= 1
    /\ pc \in {"generated", "regular", "done"} => generated = 1
    /\ regular_run # <<>> => pc \in {"regular", "done"}
    /\ pc \in {"start", "warmup"} => events \subseteq {Event("train", "warmup", FALSE)}

C7_Witness ==
    /\ pc = "done"
    /\ warmup_run # <<>>
    /\ Len(regular_run) >= 2
    /\ {e.op : e \in events} = {"train", "get_all_features", "generate_client_params"}

(* C8: every generate_client_params call of train reads a weight matrix    *)
(* produced by generate_weight_matrix, never the all-zero matrix of        *)
(* __init__, and the parameters handed to get_all_features are not all     *)
(* zero.                                                                   *)
C8_GeneratedMatrixRead ==
    \A e \in events :
        /\ e.op = "generate_client_params" => ~e.zero /\ e.generated >= 1
        /\ e.op = "get_all_features" => ~e.zero

(* C9: at the end of warm-up every client's entry of                       *)
(* client_trainable_params is a copy of the warm-up parameters, and the    *)
(* parameters generate_client_params hands to each client selected in the  *)
(* first regular round equal the warm-up parameters (n >= 2).              *)
C9_FirstRoundWarmupParams ==
    /\ pc \in {"collect", "generated"} =>
          /\ Len(client_trainable_params) = args.client_num
          /\ \A c \in 1..args.client_num : client_trainable_params[c] = pretrain_params
    /\ first_round.kind = "round" => first_round.handed = {pretrain_params}

C9_Witness ==
    /\ first_round.kind = "round"
    /\ args.client_num = 3
    /\ warmup_run # <<>>
    /\ pretrain_params # InitialParams
    /\ RLess(RZero, model_momentum) /\ RLess(model_momentum, ROne)
    /\ weight_matrix[1][2] # weight_matrix[1][3]

----------------------------------------------------------------------------
(* metacount driven by a sequence of update calls (SpecMeta) *)

MaxUpdates == 3        \* at most this many update calls

(* numpyform: two layers, of one and of two channels *)
MetaForm == <<<<0>>, <<0, 0>>>>

(* the batches update is called with: batch size, means, variances *)
MetaBatches ==
    { [m |-> 1, tm |-> AsRationals(<<<<0>>, <<2, 0>>>>), tv |-> AsRationals(<<<<0>>, <<1, 0>>>>)],
      [m |-> 2, tm |-> AsRationals(<<<<3>>, <<0, 1>>>>), tv |-> AsRationals(<<<<1>>, <<0, 2>>>>)],
      [m |-> 3, tm |-> AsRationals(<<<<1>>, <<5, 1>>>>), tv |-> AsRationals(<<<<4>>, <<2, 0>>>>)],
      [m |-> 2, tm |-> AsRationals(<<<<0>>, <<2, 0>>>>), tv |-> AsRationals(<<<<0>>, <<1, 0>>>>)],
      [m |-> 1, tm |-> AsRationals(<<<<7>>, <<1, 4>>>>), tv |-> AsRationals(<<<<2>>, <<3, 3>>>>)] }

InitMeta ==
    /\ meta = MetaInit(MetaForm)
    /\ updates = <<>>
    /\ IdleWeight
    /\ IdleArch
    /\ IdleTrain
    /\ IdleHook

CallUpdate ==
    /\ Len(updates) < MaxUpdates
    /\ \E b \in MetaBatches :
         /\ meta' = MetaUpdate(meta, b.m, b.tm, b.tv)
         /\ updates' = Append(updates, b)
    /\ UNCHANGED <<weightVars, archVars, trainVars, hookVars>>

NextMeta == CallUpdate

SpecMeta == InitMeta /\ [][NextMeta]_vars

(* Claims about metacount *)

TotalCount == Sum([k \in 1..Len(updates) |-> updates[k].m])
(* the m-weighted average of the batch means *)
PooledMean(i, c) ==
    RDiv(RSum([k \in 1..Len(updates) |-> RMul(RInt(updates[k].m), updates[k].tm[i][c])]),
         RInt(TotalCount))
(* the population variance of the union of the batches *)
PooledVar(i, c) ==
    RDiv(RSum([k \in 1..Len(updates) |->
                 RMul(RInt(updates[k].m),
                      RAdd(updates[k].tv[i][c],
                           RSq(RSub(updates[k].tm[i][c], PooledMean(i, c)))))]),
         RInt(TotalCount))
UpdateOrders(n) ==
    {q \in [1..n -> 1..n] : \A a, b \in 1..n : a # b => q[a] # q[b]}

(* C10: after any sequence of update calls with batch sizes > 0, count is  *)
(* the sum of the batch sizes, mean is the size-weighted average of the    *)
(* batch means and var the pooled population variance; after the first     *)
(* update mean = tm and var = tv; and the result does not depend on the    *)
(* order of the updates.                                                   *)
C10_PooledStatistics ==
    (meta.kind # "none" /\ updates # <<>>) =>
        /\ meta.count = TotalCount
        /\ \A i \in 1..meta.bl : \A c \in 1..Len(meta.mean[i]) :
              /\ meta.mean[i][c] = PooledMean(i, c)
              /\ meta.var[i][c] = PooledVar(i, c)
        /\ Len(updates) = 1 =>
              /\ meta.mean = updates[1].tm
              /\ meta.var = updates[1].tv
        /\ \A q \in UpdateOrders(Len(updates)) :
              LET other == MetaFold(MetaInit(MetaForm),
                                    [k \in 1..Len(updates) |-> updates[q[k]]])
              IN  other.mean = meta.mean /\ other.var = meta.var

C10_Witness ==
    /\ meta.kind # "none"
    /\ Len(updates) = 3
    /\ updates[1].tm # updates[2].tm /\ updates[2].tm # updates[3].tm
    /\ \A k \in 1..3 : meta.var # updates[k].tv /\ meta.mean # updates[k].tm

----------------------------------------------------------------------------
(* Claims about FedSRServer.__init__ and get_model_arch (SpecArch) *)

FedSRPrefix == W_fedsr \o <<Underscore>>
SupportedFedSRNames ==
    {W_mobile \o v : v \in MobileNetVersions} \cup {W_res \o v : v \in ResNetVersions}

(* C4: FedSRServer.__init__ supports exactly MobileNet and ResNet: a name  *)
(* with neither 'mobile' nor 'res' raises NotImplementedError and leaves   *)
(* args.model alone; a supported MobileNet or ResNet name is rewritten to  *)
(* 'fedsr_' + name and the selected Model_4_FedSR is constructed without   *)
(* an error.                                                               *)
C4_FedSRSupportsMobileAndRes ==
    server_model.kind # "none" =>
        /\ (~Contains(cli_model, W_mobile) /\ ~Contains(cli_model, W_res))
              => /\ server_model = Raise("NotImplementedError")
                 /\ args_model = cli_model
        /\ cli_model \in SupportedFedSRNames
              => /\ args_model = FedSRPrefix \o cli_model
                 /\ server_model.kind = "model"
                 /\ server_model.cls = "Model_4_FedSR"
                 /\ server_model.arg = cli_model

(* The substring families in the order the claim gives them *)
Families ==
    << <<W_fedsr, "Model_4_FedSR">>, <<W_res, "ResNet">>, <<W_dense, "DenseNet">>,
       <<W_mobile, "MobileNet">>, <<W_efficient, "EfficientNet">>,
       <<W_squeeze, "SqueezeNet">> >>
Matching(n) == {k \in 1..Len(Families) : Contains(n, Families[k][1])}
FirstMatch(n) == CHOOSE k \in Matching(n) : \A l \in Matching(n) : k <= l
IsSuffix(t, n) == Len(t) <= Len(n) /\ SubSeq(n, Len(n) - Len(t) + 1, Len(n)) = t
HasUnderscore(t) == \E k \in 1..Len(t) : t[k] = Underscore
(* t is the text of n after its last underscore (n itself if it has none) *)
AfterLastUnderscore(t, n) ==
    /\ IsSuffix(t, n)
    /\ ~HasUnderscore(t)
    /\ t # n => n[Len(n) - Len(t)] = Underscore

ResolvedWith(n, r, FedSRBase(_, _)) ==
    /\ n \in DOMAIN StaticTable => r.kind = "static" /\ r.cls = StaticTable[n]
    /\ (n \notin DOMAIN StaticTable /\ Matching(n) = {})
          => r.kind = "raise" /\ r.cls = "ValueError"
    /\ (n \notin DOMAIN StaticTable /\ Matching(n) # {})
          => LET f == Families[FirstMatch(n)]
             IN  /\ r.kind = "partial"
                 /\ r.cls = f[2]
                 /\ f[2] = "Model_4_FedSR" => AfterLastUnderscore(r.arg, n)
                 /\ f[2] = "SqueezeNet" => r.arg = <<n[Len(n)]>>
                 /\ f[2] \notin {"Model_4_FedSR", "SqueezeNet"}
                       => IsSuffix(r.arg, n) /\ Len(r.arg) = Len(n) - Len(f[1])
    /\ \A b \in ModelNames :
          (n = FedSRPrefix \o b /\ FedSRBase(b, n))
              => r.kind = "partial" /\ r.cls = "Model_4_FedSR" /\ r.arg = b

AnyBase(b, n) == TRUE
BaseWithoutUnderscore(b, n) == ~HasUnderscore(b)

(* C5 as stated: static keys return their class; other names resolve by    *)
(* the first matching substring in the order fedsr, res, dense, mobile,    *)
(* efficient, squeeze, the version being the rest of the name (for fedsr   *)
(* the text after the last underscore); no match raises ValueError; and    *)
(* 'fedsr_<base>' always resolves to Model_4_FedSR with base_model_name =  *)
(* <base>.                                                                 *)
C5_ResolutionAsStated ==
    arch_call.kind # "none" => ResolvedWith(cli_model, arch_call, AnyBase)

(* C5 amended: as above, but 'fedsr_<base>' resolves to Model_4_FedSR with *)
(* base_model_name = <base> only when <base> contains no underscore        *)
(* (otherwise base_model_name is the part of <base> after its last         *)
(* underscore); the version is the name without its first len(word)        *)
(* characters, and for squeeze its last character.                         *)
C5_Resolution ==
    arch_call.kind # "none" =>
        ResolvedWith(cli_model, arch_call, BaseWithoutUnderscore)

C5_Witness ==
    /\ arch_call.kind = "partial"
    /\ arch_call.cls = "Model_4_FedSR"
    /\ cli_model = FedSRPrefix \o arch_call.arg
    /\ Contains(cli_model, W_res)

----------------------------------------------------------------------------
(* DecoupledModel, models.py lines 106-175 (SpecHook) *)

MaxHookCalls == 2      \* need_all_features() is called at most this many times
MaxPasses == 3         \* forward / get_final_features / get_all_features calls

(* self.base: the kinds of its modules, in the order base(x) calls them.   *)
(* FedAvgCNN and LeNet5 alike, a base with Dropout as the torchvision      *)
(* bases have, and a custom base without Conv2d and Linear.                *)
Bases ==
    { <<"Conv2d", "ReLU", "Linear">>,
      <<"Conv2d", "BatchNorm2d", "Conv2d", "Dropout", "Linear">>,
      <<"BatchNorm2d", "ReLU">>,
      <<"Conv2d">> }

(* isinstance(module, nn.Conv2d) or isinstance(module, nn.Linear), line 119 *)
IsTarget(module) == module \in {"Conv2d", "Linear"}

(* self.dropout of check_avaliability, lines 134-138, restricted to base *)
HasDropout == \E j \in 1..Len(base) : base[j] = "Dropout"

(* output.clone().detach() of module j in the p-th pass over base *)
Activation(j, p) == [module |-> j, pass |-> p]

(* get_feature_hook_fn, lines 122-124 *)
get_feature_hook_fn(flag, features, output) ==
    IF flag THEN Append(features, output) ELSE features

(* a module's forward hooks run in turn after the module has returned *)
RECURSIVE RunHooks(_, _, _, _)
RunHooks(k, flag, features, output) ==
    IF k = 0 THEN features
    ELSE RunHooks(k - 1, flag, get_feature_hook_fn(flag, features, output), output)

(* self.base(x): modules j .. upto return in order, each running its hooks *)
RECURSIVE CallModules(_, _, _, _, _)
CallModules(j, upto, flag, features, p) ==
    IF j > upto THEN features
    ELSE CallModules(j + 1, upto, flag,
                     RunHooks(hooks[j], flag, features, Activation(j, p)), p)

(* The inputs x: the number of modules of base that accept x; the next     *)
(* module raises (a shape mismatch), Len(base) is an input base accepts.   *)
Inputs == 0..Len(base)

Call(op, p, returned) ==
    [kind |-> "call", op |-> op, pass |-> p, flag_before |-> need_all_features_flag,
     len_before |-> Len(all_features), returned |-> returned]

Tensor == [kind |-> "tensor", value |-> <<>>]
Raised == [kind |-> "raise", value |-> <<>>]
None == [kind |-> "None", value |-> <<>>]

(* DecoupledModel.__init__ of a subclass, lines 107-113 *)
InitHook ==
    /\ base \in Bases
    /\ hooks = [j \in 1..Len(base) |-> 0]
    /\ need_all_features_flag = FALSE
    /\ all_features = <<>>
    /\ dropout_mode \in {"train", "eval"}
    /\ passes = 0
    /\ need_calls = 0
    /\ clean = TRUE
    /\ last_call = NoResult
    /\ IdleWeight
    /\ IdleArch
    /\ IdleTrain
    /\ IdleMeta

(* need_all_features(), lines 115-127 *)
NeedAllFeatures ==
    /\ need_calls < MaxHookCalls
    /\ hooks' = [j \in 1..Len(base) |->
                    IF IsTarget(base[j]) THEN hooks[j] + 1 ELSE hooks[j]]
    /\ need_calls' = need_calls + 1
    /\ last_call' = Call("need_all_features", passes, None)
    /\ UNCHANGED <<base, need_all_features_flag, all_features, dropout_mode,
                   passes, clean, weightVars, archVars, trainVars, metaVars>>

(* forward(x), lines 140-141 *)
Forward ==
    /\ passes < MaxPasses
    /\ \E x \in Inputs :
         /\ all_features' = CallModules(1, x, need_all_features_flag,
                                        all_features, passes + 1)
         /\ clean' = (clean /\ x = Len(base))
         /\ last_call' = Call("forward", passes + 1,
                              IF x = Len(base) THEN Tensor ELSE Raised)
    /\ passes' = passes + 1
    /\ UNCHANGED <<base, hooks, need_all_features_flag, dropout_mode, need_calls,
                   weightVars, archVars, trainVars, metaVars>>

(* get_final_features(x, detach), lines 143-155 *)
GetFinalFeatures ==
    /\ passes < MaxPasses
    /\ \E x \in Inputs :
         /\ all_features' = CallModules(1, x, need_all_features_flag,
                                        all_features, passes + 1)
         /\ dropout_mode' = IF ~HasDropout THEN dropout_mode
                            ELSE IF x = Len(base) THEN "train" ELSE "eval"
         /\ clean' = (clean /\ x = Len(base))
         /\ last_call' = Call("get_final_features", passes + 1,
                              IF x = Len(base) THEN Tensor ELSE Raised)
    /\ passes' = passes + 1
    /\ UNCHANGED <<base, hooks, need_all_features_flag, need_calls,
                   weightVars, archVars, trainVars, metaVars>>

(* get_all_features(x), lines 157-175 *)
GetAllFeatures ==
    /\ passes < MaxPasses
    /\ \E x \in Inputs :
         LET recorded == CallModules(1, x, TRUE, all_features, passes + 1)
         IN  IF x = Len(base)
             THEN /\ need_all_features_flag' = FALSE
                  /\ all_features' = <<>>
                  /\ dropout_mode' = IF HasDropout THEN "train" ELSE dropout_mode
                  /\ clean' = clean
                  /\ last_call' =
                        Call("get_all_features", passes + 1,
                             IF Len(recorded) > 0
                             THEN [kind |-> "list", value |-> recorded]
                             ELSE None)
             ELSE /\ need_all_features_flag' = TRUE
                  /\ all_features' = recorded
                  /\ dropout_mode' = IF HasDropout THEN "eval" ELSE dropout_mode
                  /\ clean' = FALSE
                  /\ last_call' = Call("get_all_features", passes + 1, Raised)
    /\ passes' = passes + 1
    /\ UNCHANGED <<base, hooks, need_calls, weightVars, archVars, trainVars,
                   metaVars>>

NextHook ==
    \/ NeedAllFeatures
    \/ Forward
    \/ GetFinalFeatures
    \/ GetAllFeatures

SpecHook == InitHook /\ [][NextHook]_vars

(* Claims about DecoupledModel *)

Targets == {j \in 1..Len(base) : IsTarget(base[j])}
(* how many of the returned activations are outputs of module j *)
ReturnedOf(j) ==
    Cardinality({k \in 1..Len(last_call.returned.value) :
                    last_call.returned.value[k].module = j})

(* C11: once need_all_features() has been called, in any sequence of       *)
(* forward, get_final_features and get_all_features calls (that return),   *)
(* need_all_features_flag is False and all_features is empty before and    *)
(* after every call; forward and get_final_features add nothing to         *)
(* all_features; get_all_features returns only activations of its own      *)
(* pass, exactly one per Conv2d/Linear module of base, also when           *)
(* need_all_features() was called more than once, and None when nothing    *)
(* was recorded.                                                           *)
C11_OneActivationPerModule ==
    (need_calls >= 1 /\ clean /\ last_call.kind = "call") =>
        /\ need_all_features_flag = FALSE
        /\ all_features = <<>>
        /\ ~last_call.flag_before /\ last_call.len_before = 0
        /\ last_call.op = "get_all_features" =>
              /\ last_call.returned.kind = (IF Targets = {} THEN "None" ELSE "list")
              /\ \A k \in 1..Len(last_call.returned.value) :
                    last_call.returned.value[k].pass = last_call.pass
              /\ \A j \in 1..Len(base) :
                    ReturnedOf(j) = (IF j \in Targets THEN 1 ELSE 0)

====
